---- MODULE Spec2Model ----
(***************************************************************************)
(* Crime-incident ETL of project2/data: create_db.py (the schema) and      *)
(* load_db.py (the CSV normalizer), as a state machine over the persisted  *)
(* SQLite store; and the chat application streamlit_app.py, as a state     *)
(* machine over the session of one browser (variable app, SpecChat).       *)
(*                                                                         *)
(* Representation of Python / SQL values:                                  *)
(*   str    a tuple of Unicode code points, "Lat" = <<76,97,116>>          *)
(*   None   (and SQL NULL, and a NaN cell of an object column): <<-1>>,    *)
(*          which is no string because -1 is no code point                 *)
(*   float  <<num, den>>: the decimal num/den, den a power of ten;         *)
(*          NaN = <<0,0>>, +inf = <<1,0>>, -inf = <<-1,0>>                  *)
(*   int    <<n, 1>>                                                       *)
(***************************************************************************)
EXTENDS Integers, Sequences, FiniteSets, TLC

VARIABLES
  schema,         \* TRUE once create_db.py has created the store file
  db,             \* the persisted (committed) store: the six tables
  pc,             \* load_db.main: "idle", "running", "done" or "failed"
  err,            \* the exception that ended the last run, or "none"
  columns,        \* header row of the CSV file of the current run
  chunksize,      \* args.chunksize of the current run
  chunk,          \* the rows of the chunk read last, as read_csv yields them
  nread,          \* chunks read so far in the current run
  more,           \* the last chunk was full: the file may hold more rows
  resolved,       \* main's local: canonical field -> CSV header (or None)
  incident_rows,  \* main's local: tuples handed to INSERT OR REPLACE incidents
  label_rows,     \* main's local: tuples handed to INSERT OR REPLACE labels
  total,          \* chunks read over all runs
  cleaned,        \* history: the rows of the last chunk after line 159
  ingested,       \* history: incident_id -> the last cleaned row emitted for it
  replaced,       \* history: the stored rows the last commit replaced
  todo,           \* SpecRerun: the chunks of the file not yet read in this run
  file,           \* SpecRerun: the input file: header, batch size, chunks
  run,            \* SpecRerun: number of runs started
  first_db,       \* SpecRerun: the store when the current run started
  app,            \* SpecChat: the session of the chat application
  api             \* SpecApi: the process of the model-serving wrapper

vars == << schema, db, pc, err, columns, chunksize, chunk, nread, more,
           resolved, incident_rows, label_rows, total, cleaned, ingested,
           replaced, todo, file, run, first_db, app, api >>

----------------------------------------------------------------------------
(* Bounds of the model *)

\* chunks read over all the runs of a behaviour of Spec
MaxChunks == 2
\* columns of a header row in SpecCols
MaxCols == 2
\* rows of the input file in SpecRerun
MaxFileRows == 3
\* characters of a cell in SpecVal
MaxLen == 4

----------------------------------------------------------------------------
(* Values *)

None == <<-1>>
NaN == <<0, 0>>
Inf == <<1, 0>>

isna(x) == x = None \/ x = NaN
notna(x) == ~isna(x)

\* str.strip() with no argument strips these (ASCII) white-space characters
Whitespace == {9, 10, 11, 12, 13, 28, 29, 30, 31, 32}

RECURSIVE lstrip(_)
lstrip(s) ==
  IF s # <<>> /\ Head(s) \in Whitespace THEN lstrip(Tail(s)) ELSE s

RECURSIVE rstrip(_)
rstrip(s) ==
  IF s # <<>> /\ s[Len(s)] \in Whitespace
  THEN rstrip(SubSeq(s, 1, Len(s) - 1)) ELSE s

strip(s) == rstrip(lstrip(s))

\* the sequence f as a tuple (f is a function on 1..n)
Tuple(f) == f \o <<>>

\* str.lower() on the ASCII letters
lower(s) ==
  Tuple([i \in 1..Len(s) |-> IF s[i] \in 65..90 THEN s[i] + 32 ELSE s[i]])

\* str.replace(old, new) for a one-character old and new
replace(s, old, new) ==
  Tuple([i \in 1..Len(s) |-> IF s[i] = old THEN new ELSE s[i]])

\* str.replace(old, "") for a one-character old
remove(s, old) ==
  LET keep(ch) == ch # old
  IN SelectSeq(s, keep)

\* Python's order on str: lexicographic by code point
RECURSIVE StrLess(_, _)
StrLess(a, b) ==
  IF b = <<>> THEN FALSE
  ELSE IF a = <<>> THEN TRUE
  ELSE IF Head(a) # Head(b) THEN Head(a) < Head(b)
  ELSE StrLess(Tail(a), Tail(b))

\* sorted(S) for a set S of str
RECURSIVE sorted(_)
sorted(S) ==
  IF S = {} THEN <<>>
  ELSE LET m == CHOOSE x \in S : \A y \in S \ {x} : StrLess(x, y)
       IN <<m>> \o sorted(S \ {m})

Range(s) == {s[i] : i \in 1..Len(s)}

----------------------------------------------------------------------------
(* load_db.py: constants and pure helpers *)

VIOLENT_SET ==
  { <<65,115,115,97,117,108,116>>,    \* "Assault"
    <<82,111,98,98,101,114,121>>,    \* "Robbery"
    <<83,101,120,117,97,108,32,65,115,115,97,117,108,116>>,    \* "Sexual Assault"
    <<72,111,109,105,99,105,100,101>>,    \* "Homicide"
    <<79,116,104,101,114,32,83,101,120,117,97,108,32,79,102,102,101,110,115,101>>,    \* "Other Sexual Offense"
    <<83,101,120,117,97,108,32,79,102,102,101,110,115,101>>,    \* "Sexual Offense"
    <<83,79,68,79,77,89>> }    \* "SODOMY"

\* a variant of norm_col that leaves '/' alone
norm_col_keeping_slash(c) ==
  replace(
    replace(
      replace(lower(strip(remove(c, 65279))), 45, 32),
      8217, 39),
    32, 95)


norm_col(c) ==
  replace(
    replace(
      replace(
        replace(lower(strip(remove(c, 65279))), 45, 32),
        47, 32),
      8217, 39),
    32, 95)

norm_val(x) ==
  IF isna(x) THEN None
  ELSE LET s == strip(x)
       IN IF s = <<>> \/ lower(s) \in {<<110,97,110>>, <<110,111,110,101>>}
          THEN None
          ELSE s

CANDS ==
  [ incident_id |-> <<
        <<73,110,99,105,100,101,110,116,32,73,68>>,    \* "Incident ID"
        <<105,110,99,105,100,101,110,116,95,105,100>>,    \* "incident_id"
        <<105,110,99,105,100,101,110,116,105,100>>,    \* "incidentid"
        <<111,98,106,101,99,116,105,100>>,    \* "objectid"
        <<105,100>>    \* "id"
      >>,
    case_number |-> <<
        <<67,97,115,101,32,78,117,109,98,101,114>>,    \* "Case Number"
        <<99,97,115,101,95,110,117,109,98,101,114>>,    \* "case_number"
        <<99,97,115,101,95,110,111>>,    \* "case_no"
        <<99,97,115,101,110,117,109,98,101,114>>    \* "casenumber"
      >>,
    parent_type |-> <<
        <<80,97,114,101,110,116,32,73,110,99,105,100,101,110,116,32,84,121,112,101>>,    \* "Parent Incident Type"
        <<112,97,114,101,110,116,95,105,110,99,105,100,101,110,116,95,116,121,112,101>>,    \* "parent_incident_type"
        <<112,97,114,101,110,116,95,116,121,112,101>>,    \* "parent_type"
        <<99,97,116,101,103,111,114,121>>,    \* "category"
        <<111,102,102,101,110,115,101,95,99,97,116,101,103,111,114,121>>    \* "offense_category"
      >>,
    incident_datetime |-> <<
        <<73,110,99,105,100,101,110,116,32,68,97,116,101,116,105,109,101>>,    \* "Incident Datetime"
        <<105,110,99,105,100,101,110,116,95,100,97,116,101,116,105,109,101>>,    \* "incident_datetime"
        <<105,110,99,105,100,101,110,116,95,100,97,116,101,95,116,105,109,101>>,    \* "incident_date_time"
        <<100,97,116,101,116,105,109,101>>,    \* "datetime"
        <<105,110,99,105,100,101,110,116,95,100,97,116,101>>    \* "incident_date"
      >>,
    hour_of_day |-> <<
        <<72,111,117,114,32,111,102,32,68,97,121>>,    \* "Hour of Day"
        <<104,111,117,114,95,111,102,95,100,97,121>>,    \* "hour_of_day"
        <<104,111,117,114>>,    \* "hour"
        <<111,99,99,117,114,95,104,111,117,114>>    \* "occur_hour"
      >>,
    day_of_week |-> <<
        <<68,97,121,32,111,102,32,87,101,101,107>>,    \* "Day of Week"
        <<100,97,121,95,111,102,95,119,101,101,107>>,    \* "day_of_week"
        <<119,101,101,107,100,97,121>>,    \* "weekday"
        <<100,111,119>>    \* "dow"
      >>,
    police_district |-> <<
        <<80,111,108,105,99,101,32,68,105,115,116,114,105,99,116>>,    \* "Police District"
        <<112,111,108,105,99,101,95,100,105,115,116,114,105,99,116>>,    \* "police_district"
        <<100,105,115,116,114,105,99,116>>    \* "district"
      >>,
    neighborhood |-> <<
        <<110,101,105,103,104,98,111,114,104,111,111,100>>,    \* "neighborhood"
        <<78,101,105,103,104,98,111,114,104,111,111,100>>,    \* "Neighborhood"
        <<110,101,105,103,104,98,111,117,114,104,111,111,100>>,    \* "neighbourhood"
        <<97,114,101,97>>    \* "area"
      >>,
    council_district |-> <<
        <<67,111,117,110,99,105,108,32,68,105,115,116,114,105,99,116>>,    \* "Council District"
        <<99,111,117,110,99,105,108,95,100,105,115,116,114,105,99,116>>,    \* "council_district"
        <<99,111,117,110,99,105,108>>    \* "council"
      >>,
    zip_code |-> <<
        <<122,105,112,95,99,111,100,101>>,    \* "zip_code"
        <<122,105,112,99,111,100,101>>,    \* "zipcode"
        <<122,105,112>>,    \* "zip"
        <<112,111,115,116,97,108,95,99,111,100,101>>    \* "postal_code"
      >>,
    latitude |-> <<
        <<76,97,116,105,116,117,100,101>>,    \* "Latitude"
        <<108,97,116>>,    \* "lat"
        <<121>>    \* "y"
      >>,
    longitude |-> <<
        <<76,111,110,103,105,116,117,100,101>>,    \* "Longitude"
        <<108,111,110>>,    \* "lon"
        <<108,110,103>>,    \* "lng"
        <<120>>    \* "x"
      >> ]

Fields == DOMAIN CANDS

\* {norm_col(c): c for c in chunk.columns}: of two headers with one normal form
\* the later one stays
cols_norm_to_orig(cols) ==
  LET norms == Tuple([i \in 1..Len(cols) |-> norm_col(cols[i])])
  IN [k \in Range(norms) |->
        cols[CHOOSE i \in 1..Len(cols) :
               /\ norms[i] = k
               /\ \A j \in (i+1)..Len(cols) : norms[j] # k]]

\* a variant of find_col that tries the candidates from the last to the first
RECURSIVE find_col_from_last(_, _)
find_col_from_last(norm_to_orig, candidates) ==
  IF candidates = <<>> THEN None
  ELSE LET key == norm_col(candidates[Len(candidates)])
       IN IF key \in DOMAIN norm_to_orig THEN norm_to_orig[key]
          ELSE find_col_from_last(norm_to_orig,
                                  SubSeq(candidates, 1, Len(candidates) - 1))

RECURSIVE find_col(_, _)
find_col(norm_to_orig, candidates) ==
  IF candidates = <<>> THEN None
  ELSE LET key == norm_col(Head(candidates))
       IN IF key \in DOMAIN norm_to_orig THEN norm_to_orig[key]
          ELSE find_col(norm_to_orig, Tail(candidates))

\* resolved = {k: find_col(cols_norm_to_orig, v) for k, v in CANDS.items()}
Resolve(cols) ==
  LET norm_to_orig == cols_norm_to_orig(cols)
  IN [k \in Fields |-> find_col(norm_to_orig, CANDS[k])]

----------------------------------------------------------------------------
(* pandas / Python numerics used by load_db.main *)

IsDigits(s) == s # <<>> /\ \A i \in 1..Len(s) : s[i] \in 48..57

RECURSIVE DigitsVal(_)
DigitsVal(s) ==
  IF s = <<>> THEN 0
  ELSE DigitsVal(SubSeq(s, 1, Len(s) - 1)) * 10 + (s[Len(s)] - 48)

RECURSIVE Pow10(_)
Pow10(k) == IF k = 0 THEN 1 ELSE 10 * Pow10(k - 1)

RECURSIVE StripZeros(_)
StripZeros(s) ==
  IF s # <<>> /\ s[Len(s)] = 48 THEN StripZeros(SubSeq(s, 1, Len(s) - 1)) ELSE s

\* a variant of errors="coerce" that turns an invalid value into 0
coerce_to_zero(x) == <<0, 1>>

\* errors="coerce": an invalid value becomes NaN
coerce(x) == NaN

\* pd.to_numeric(column, errors="coerce") on one cell: a decimal literal
\* [+-]digits[.digits] or an infinity parses, anything else becomes NaN
to_numeric(x) ==
  IF isna(x) THEN NaN
  ELSE
    LET signed == x # <<>> /\ Head(x) \in {43, 45}
        sign == IF x # <<>> /\ Head(x) = 45 THEN -1 ELSE 1
        body == IF signed THEN Tail(x) ELSE x
        dots == {i \in 1..Len(body) : body[i] = 46}
    IN IF lower(body) \in {<<105,110,102>>, <<105,110,102,105,110,105,116,121>>}
       THEN <<sign, 0>>
       ELSE IF IsDigits(body) THEN <<sign * DigitsVal(body), 1>>
       ELSE IF Cardinality(dots) = 1
       THEN LET d == CHOOSE i \in dots : TRUE
                ip == SubSeq(body, 1, d - 1)
                fp == SubSeq(body, d + 1, Len(body))
                fz == StripZeros(fp)
            IN IF /\ (ip = <<>> \/ IsDigits(ip))
                  /\ (fp = <<>> \/ IsDigits(fp))
                  /\ (ip # <<>> \/ fp # <<>>)
               THEN << sign * (DigitsVal(ip) * Pow10(Len(fz)) + DigitsVal(fz)),
                       Pow10(Len(fz)) >>
               ELSE coerce(x)
       ELSE coerce(x)

IntVal(n) == <<n, 1>>

\* int(x) of a float raises OverflowError on an infinity
int_raises(x) == x[2] = 0 /\ x[1] # 0

\* int(x) of a finite float truncates toward zero
int(x) ==
  IF x[1] >= 0 THEN IntVal(x[1] \div x[2]) ELSE IntVal(-((-x[1]) \div x[2]))

----------------------------------------------------------------------------
(* create_db.py: the schema *)

DimTables ==
  {"parent_types", "day_of_week_dim", "police_district_dim", "neighborhood_dim"}

\* the store right after executescript(DDL) on a new file: six empty tables.
\* A dimension row is [id, name]; an incidents row has the twelve columns of
\* the DDL; a labels row is [incident_id, violent].
DDL ==
  [ parent_types |-> {}, day_of_week_dim |-> {}, police_district_dim |-> {},
    neighborhood_dim |-> {}, incidents |-> {}, labels |-> {} ]

\* INTEGER PRIMARY KEY without a value: one more than the largest rowid
NextRowid(rows) ==
  IF rows = {} THEN 1
  ELSE (CHOOSE m \in {r.id : r \in rows} : \A r \in rows : r.id <= m) + 1

\* a variant of the statement: INSERT INTO {table} (name) with no uniqueness
InsertAlways(rows, v) == rows \cup {[id |-> NextRowid(rows), name |-> v]}

\* a variant of the statement: INSERT OR REPLACE INTO {table} (name)
InsertOrReplace(rows, v) ==
  {r \in rows : r.name # v} \cup {[id |-> NextRowid(rows), name |-> v]}

\* INSERT OR IGNORE INTO {table} (name) VALUES (?), name being UNIQUE
InsertOrIgnore(rows, v) ==
  IF \E r \in rows : r.name = v THEN rows
  ELSE rows \cup {[id |-> NextRowid(rows), name |-> v]}

RECURSIVE InsertOrIgnoreMany(_, _)
InsertOrIgnoreMany(rows, vs) ==
  IF vs = <<>> THEN rows
  ELSE InsertOrIgnoreMany(InsertOrIgnore(rows, Head(vs)), Tail(vs))

\* a variant of the statement: INSERT OR IGNORE INTO incidents
IgnoreIncident(con, t) ==
  IF \E r \in con.incidents : r.incident_id = t.incident_id THEN con
  ELSE [con EXCEPT !.incidents = @ \cup {t}]

\* INSERT OR REPLACE INTO incidents under foreign_keys = ON: the row holding
\* the primary key is deleted, which deletes its label (ON DELETE CASCADE)
ReplaceIncident(con, t) ==
  [con EXCEPT
     !.incidents = {r \in @ : r.incident_id # t.incident_id} \cup {t},
     !.labels = IF \E r \in con.incidents : r.incident_id = t.incident_id
                THEN {l \in @ : l.incident_id # t.incident_id}
                ELSE @]

RECURSIVE ReplaceIncidents(_, _)
ReplaceIncidents(con, ts) ==
  IF ts = <<>> THEN con
  ELSE ReplaceIncidents(ReplaceIncident(con, Head(ts)), Tail(ts))

\* INSERT OR REPLACE INTO labels (incident_id, violent)
ReplaceLabel(con, l) ==
  [con EXCEPT
     !.labels = {x \in @ : x.incident_id # l.incident_id} \cup {l}]

RECURSIVE ReplaceLabels(_, _)
ReplaceLabels(con, ls) ==
  IF ls = <<>> THEN con
  ELSE ReplaceLabels(ReplaceLabel(con, Head(ls)), Tail(ls))

\* a foreign key of the DDL that the connection's view violates
ForeignKeyViolated(con) ==
  \/ \E r \in con.incidents :
       \/ r.parent_type_id = None
       \/ \A d \in con.parent_types : r.parent_type_id # IntVal(d.id)
       \/ r.day_of_week_id # None
            /\ \A d \in con.day_of_week_dim : r.day_of_week_id # IntVal(d.id)
       \/ r.police_district_id # None
            /\ \A d \in con.police_district_dim : r.police_district_id # IntVal(d.id)
       \/ r.neighborhood_id # None
            /\ \A d \in con.neighborhood_dim : r.neighborhood_id # IntVal(d.id)
  \/ \E l \in con.labels :
       \A r \in con.incidents : r.incident_id # l.incident_id

----------------------------------------------------------------------------
(* load_db.py: upsert_dim and the body of main's loop *)

\* a variant of upsert_dim whose dict holds the names it has just inserted
upsert_dim_inserted_only(rows, values) ==
  LET uniq == sorted({v \in Range(values) : v # None})
      after == InsertOrIgnoreMany(rows, uniq)
  IN [ table |-> after,
       map |-> [n \in {r.name : r \in after \ rows} |->
                  (CHOOSE r \in after : r.name = n).id] ]

\* returns the table after the inserts and the dict {name: id} of all its rows
upsert_dim(rows, values) ==
  LET uniq == sorted({v \in Range(values) : v # None})
      after == InsertOrIgnoreMany(rows, uniq)
  IN [ table |-> after,
       map |-> [n \in {r.name : r \in after} |->
                  (CHOOSE r \in after : r.name = n).id] ]

\* dict.get(key): the id as an int, or None
get(map, key) == IF key \in DOMAIN map THEN IntVal(map[key]) ELSE None

\* a variant of line 159 that compares the names without regard to case
isin_any_case(parent_type) ==
  IF lower(parent_type) \in {lower(v) : v \in VIOLENT_SET} THEN 1 ELSE 0

\* line 159: chunk["parent_type"].isin(VIOLENT_SET).astype(int), per row
isin_VIOLENT_SET(parent_type) == IF parent_type \in VIOLENT_SET THEN 1 ELSE 0

\* chunk[col] of a row after the rename of line 121; a column the header
\* lacks is created as None (lines 124-127, 148-149, 154-155)
Cell(res, cols, row, col) ==
  IF res[col] = None THEN None
  ELSE row[CHOOSE i \in 1..Len(cols) : cols[i] = res[col]]

\* lines 130-132: the three key columns cleaned with norm_val
KeyCols(res, cols, row) ==
  [ incident_id |-> norm_val(Cell(res, cols, row, "incident_id")),
    case_number |-> norm_val(Cell(res, cols, row, "case_number")),
    parent_type |-> norm_val(Cell(res, cols, row, "parent_type")) ]

\* a variant of lines 136-138 that falls back row by row
RowFallback(keys) ==
  Tuple([i \in 1..Len(keys) |->
           IF notna(keys[i].incident_id) THEN keys[i]
           ELSE [keys[i] EXCEPT !.incident_id = keys[i].case_number]])

\* a variant of lines 136-138 without the fallback
NoFallback(keys) == keys

\* lines 136-138: with no incident_id in the whole chunk, the case_number
\* column becomes the incident_id column
Fallback(keys) ==
  IF Cardinality({i \in 1..Len(keys) : notna(keys[i].incident_id)}) = 0
  THEN Tuple([i \in 1..Len(keys) |->
                [keys[i] EXCEPT !.incident_id = keys[i].case_number]])
  ELSE keys

\* a variant of line 141 that requires the case number too
KeptWithCaseNumber(keys) ==
  {i \in 1..Len(keys) : /\ notna(keys[i].incident_id)
                        /\ notna(keys[i].parent_type)
                        /\ notna(keys[i].case_number)}

\* line 141: chunk.dropna(subset=["incident_id", "parent_type"])
Kept(keys) ==
  {i \in 1..Len(keys) : notna(keys[i].incident_id) /\ notna(keys[i].parent_type)}

RECURSIVE SelectIdx(_, _, _)
SelectIdx(s, keep, i) ==
  IF i > Len(s) THEN <<>>
  ELSE (IF i \in keep THEN <<s[i]>> ELSE <<>>) \o SelectIdx(s, keep, i + 1)

\* lines 120-159: the chunk as a sequence of rows keyed by canonical field
Clean(res, cols, rows) ==
  LET keys == Fallback(Tuple([i \in 1..Len(rows) |-> KeyCols(res, cols, rows[i])]))
      full == [i \in 1..Len(rows) |->
        [ incident_id |-> keys[i].incident_id,
          case_number |-> keys[i].case_number,
          parent_type |-> keys[i].parent_type,
          incident_datetime |-> norm_val(Cell(res, cols, rows[i], "incident_datetime")),
          day_of_week |-> norm_val(Cell(res, cols, rows[i], "day_of_week")),
          police_district |-> norm_val(Cell(res, cols, rows[i], "police_district")),
          neighborhood |-> norm_val(Cell(res, cols, rows[i], "neighborhood")),
          council_district |-> norm_val(Cell(res, cols, rows[i], "council_district")),
          zip_code |-> norm_val(Cell(res, cols, rows[i], "zip_code")),
          hour_of_day |-> to_numeric(Cell(res, cols, rows[i], "hour_of_day")),
          latitude |-> to_numeric(Cell(res, cols, rows[i], "latitude")),
          longitude |-> to_numeric(Cell(res, cols, rows[i], "longitude")),
          violent |-> isin_VIOLENT_SET(keys[i].parent_type) ]]
  IN SelectIdx(full, Kept(keys), 1)

\* `x if x else None` of lines 181-183
Truthy(x) == x # None /\ x # <<>>

\* str(x) of a str or of None
str(x) == IF x = None THEN <<78,111,110,101>> ELSE x

\* a variant of line 171 that takes the key from the case number as it is
incident_id_from_case(r) == r.case_number

\* line 171: incident_id = str(getattr(r, "incident_id"))
incident_id(r) == str(r.incident_id)

\* lines 171-207: the incidents tuple of one row
IncidentTuple(r, parent_map, dow_map, pd_map, nb_map) ==
  [ incident_id |-> incident_id(r),
    case_number |-> r.case_number,
    incident_datetime |-> r.incident_datetime,
    hour_of_day |-> IF notna(r.hour_of_day) THEN int(r.hour_of_day) ELSE None,
    latitude |-> IF notna(r.latitude) THEN r.latitude ELSE None,
    longitude |-> IF notna(r.longitude) THEN r.longitude ELSE None,
    zip_code |-> r.zip_code,
    council_district |-> r.council_district,
    parent_type_id |-> get(parent_map, r.parent_type),
    day_of_week_id |->
      IF Truthy(r.day_of_week) THEN get(dow_map, r.day_of_week) ELSE None,
    police_district_id |->
      IF Truthy(r.police_district) THEN get(pd_map, r.police_district) ELSE None,
    neighborhood_id |->
      IF Truthy(r.neighborhood) THEN get(nb_map, r.neighborhood) ELSE None ]

\* line 174: a row whose category has no id is skipped
Emitted(cl, parent_map) ==
  SelectIdx(cl, {i \in 1..Len(cl) : get(parent_map, cl[i].parent_type) # None}, 1)

\* line 208
LabelTuple(r) == [incident_id |-> incident_id(r), violent |-> r.violent]

\* what one pass of the loop leaves: the exception raised ("none": the pass
\* reached its commit), the connection's view of the store at that point, and
\* main's locals
Outcome(e, view, res, cl, em, irows, lrows) ==
  [ err |-> e, con |-> view, resolved |-> res, cleaned |-> cl,
    emitted |-> em, incident_rows |-> irows, label_rows |-> lrows ]

Column(cl, col) == Tuple([i \in 1..Len(cl) |-> cl[i][col]])

\* a variant of lines 210-226 that writes the labels before the incidents
PersistLabelsFirst(con4, res, cl, em, irows, lrows, fault) ==
  LET con5 == ReplaceLabels(con4, lrows)
      con6 == ReplaceIncidents(con5, irows)
  IN IF \E t \in Range(irows) : t.parent_type_id = None
     THEN Outcome("IntegrityError", con4, res, cl, em, irows, lrows)
     ELSE IF fault = "labels"
     THEN Outcome("OperationalError", con5, res, cl, em, irows, lrows)
     ELSE IF ForeignKeyViolated(con6)
     THEN Outcome("IntegrityError", con6, res, cl, em, irows, lrows)
     ELSE IF fault = "commit"
     THEN Outcome("OperationalError", con6, res, cl, em, irows, lrows)
     ELSE Outcome("none", con6, res, cl, em, irows, lrows)

\* lines 210-226: the two executemany and the commit, with the NOT NULL and
\* FOREIGN KEY constraints of the DDL. `fault` names the statement at which
\* the store itself raises sqlite3.OperationalError ("none": the store works).
Persist(con4, res, cl, em, irows, lrows, fault) ==
  LET con5 == ReplaceIncidents(con4, irows)
      con6 == ReplaceLabels(con5, lrows)
  IN IF \E t \in Range(irows) : t.parent_type_id = None
     THEN Outcome("IntegrityError", con4, res, cl, em, irows, lrows)
     ELSE IF fault = "labels"
     THEN Outcome("OperationalError", con5, res, cl, em, irows, lrows)
     ELSE IF ForeignKeyViolated(con6)
     THEN Outcome("IntegrityError", con6, res, cl, em, irows, lrows)
     ELSE IF fault = "commit"
     THEN Outcome("OperationalError", con6, res, cl, em, irows, lrows)
     ELSE Outcome("none", con6, res, cl, em, irows, lrows)

\* lines 167-208: the tuples of the rows, up to the first row whose hour
\* int() cannot convert
BuildRows(con4, res, cl, parent_map, dow_map, pd_map, nb_map, fault) ==
  LET em == Emitted(cl, parent_map)
      bad == {i \in 1..Len(em) :
                notna(em[i].hour_of_day) /\ int_raises(em[i].hour_of_day)}
      n == IF bad = {} THEN Len(em)
           ELSE (CHOOSE i \in bad : \A j \in bad : i <= j) - 1
      irows == Tuple([i \in 1..n |->
                  IncidentTuple(em[i], parent_map, dow_map, pd_map, nb_map)])
      lrows == Tuple([i \in 1..n |-> LabelTuple(em[i])])
  IN IF bad # {}
     THEN Outcome("OverflowError", con4, res, cl, em, irows, lrows)
     ELSE Persist(con4, res, cl, em, irows, lrows, fault)

\* lines 161-165: the four upsert_dim on the connection
UpsertDims(con, res, cl, fault) ==
  LET pt == upsert_dim(con.parent_types, Column(cl, "parent_type"))
      dow == upsert_dim(con.day_of_week_dim, Column(cl, "day_of_week"))
      pd == upsert_dim(con.police_district_dim, Column(cl, "police_district"))
      nb == upsert_dim(con.neighborhood_dim, Column(cl, "neighborhood"))
  IN BuildRows([con EXCEPT !.parent_types = pt.table,
                                !.day_of_week_dim = dow.table,
                                !.police_district_dim = pd.table,
                                !.neighborhood_dim = nb.table],
                    res, cl, pt.map, dow.map, pd.map, nb.map, fault)

\* a variant of the loop that requires the category column only
loop_body_category_only(con, cols, rows, fault) ==
  LET res == Resolve(cols)
  IN IF res.parent_type = None
     THEN Outcome("ValueError", con, res, <<>>, <<>>, <<>>, <<>>)
     ELSE UpsertDims(con, res, Clean(res, cols, rows), fault)

\* one pass of the loop of lines 101-228 over the connection's view `con` of
\* the store, up to the commit or to the exception that leaves the loop
loop_body(con, cols, rows, fault) ==
  LET res == Resolve(cols)
  IN IF res.parent_type = None
     THEN Outcome("ValueError", con, res, <<>>, <<>>, <<>>, <<>>)
     ELSE IF res.incident_id = None /\ res.case_number = None
     THEN Outcome("ValueError", con, res, <<>>, <<>>, <<>>, <<>>)
     ELSE UpsertDims(con, res, Clean(res, cols, rows), fault)

\* line 226: con.commit() makes the connection's view the persisted store
commit(con, persisted) == con

\* a variant of close() that keeps the open transaction
close_keeping(con, persisted) == con

\* line 241: con.close() with a transaction open rolls it back
close(con, persisted) == persisted

----------------------------------------------------------------------------
(* Inputs: cell texts, header rows and rows of the CSV files *)

V_A1 == <<65,49>>    \* "A1"
V_A2 == <<65,50>>    \* "A2"
V_CN1 == <<67,78,49>>    \* "CN1"
V_CN2 == <<67,78,50>>    \* "CN2"
V_CN3 == <<67,78,51>>    \* "CN3"
V_Assault == <<65,115,115,97,117,108,116>>    \* "Assault"
V_assault == <<97,115,115,97,117,108,116>>    \* "assault"
V_Fraud == <<32,70,114,97,117,100,32>>    \* " Fraud "
V_Robbery == <<32,82,111,98,98,101,114,121,32>>    \* " Robbery "
V_Homicide == <<72,111,109,105,99,105,100,101>>    \* "Homicide"
V_Theft == <<84,104,101,102,116>>    \* "Theft"
V_nan == <<110,97,110>>    \* "nan"
V_blank == <<32>>    \* " "
V_Monday == <<77,111,110,100,97,121>>    \* "Monday"
V_Friday == <<70,114,105,100,97,121>>    \* "Friday"
V_14 == <<49,52>>    \* "14"
V_24 == <<50,52>>    \* "24"
V_minus1 == <<45,49>>    \* "-1"
V_inf == <<105,110,102>>    \* "inf"
V_abc == <<97,98,99>>    \* "abc"
V_7 == <<55>>    \* "7"
V_D1 == <<68,49>>    \* "D1"
V_Downtown == <<32,68,111,119,110,116,111,119,110>>    \* " Downtown"
V_39_5 == <<51,57,46,53>>    \* "39.5"
V_minus76_25 == <<45,55,54,46,50,53>>    \* "-76.25"

H_IncidentID == <<73,110,99,105,100,101,110,116,32,73,68>>    \* "Incident ID"
H_CaseNumber == <<67,97,115,101,32,78,117,109,98,101,114>>    \* "Case Number"
H_ParentIncidentType == <<80,97,114,101,110,116,32,73,110,99,105,100,101,110,116,32,84,121,112,101>>    \* "Parent Incident Type"
H_HourOfDay == <<72,111,117,114,32,111,102,32,68,97,121>>    \* "Hour of Day"
H_DayOfWeek == <<68,97,121,32,111,102,32,87,101,101,107>>    \* "Day of Week"
H_case_no == <<99,97,115,101,95,110,111>>    \* "case_no"
H_offense_category == <<111,102,102,101,110,115,101,95,99,97,116,101,103,111,114,121>>    \* "offense_category"
H_WEEKDAY == <<32,87,69,69,75,68,65,89,32>>    \* " WEEKDAY "
H_objectid == <<111,98,106,101,99,116,105,100>>    \* "objectid"
H_category == <<99,97,116,101,103,111,114,121>>    \* "category"
H_hour == <<104,111,117,114>>    \* "hour"
H_incident_id == <<105,110,99,105,100,101,110,116,95,105,100>>    \* "incident_id"
H_INCIDENT_ID == <<32,73,78,67,73,68,69,78,84,45,73,68,32>>    \* " INCIDENT-ID "
H_Incident_Id == <<73,110,99,105,100,101,110,116,47,73,100>>    \* "Incident/Id"
H_BOM_IncidentID == <<65279,73,110,99,105,100,101,110,116,32,73,68>>    \* "\ufeffIncident ID"
H_Incident__ID == <<73,110,99,105,100,101,110,116,32,32,73,68>>    \* "Incident  ID"
H_identifier == <<105,100,101,110,116,105,102,105,101,114>>    \* "identifier"
H_id == <<105,100>>    \* "id"
H_Lat == <<76,97,116>>    \* "Lat"
H_Latitude == <<76,97,116,105,116,117,100,101>>    \* "Latitude"
H_LATITUDE == <<76,65,84,73,84,85,68,69,32>>    \* "LATITUDE "
H_Longitude == <<76,111,110,103,105,116,117,100,101>>    \* "Longitude"
H_lng == <<108,110,103>>    \* "lng"
H_District == <<68,105,115,116,114,105,99,116>>    \* "District"
H_AREA == <<65,82,69,65>>    \* "AREA"

\* The input files: a header row and the rows a file under it may hold, cell
\* by cell as read_csv yields them (None for an empty cell). Identifiers are
\* not numerals, so read_csv keeps them as text.
Sources ==
  { [ columns |-> <<H_IncidentID, H_CaseNumber, H_ParentIncidentType,
                    H_HourOfDay, H_DayOfWeek>>,
      rows |-> { <<V_A1, V_CN1, V_Assault, V_24, V_Monday>>,
                 <<V_blank, V_CN1, V_Assault, V_14, V_Monday>>,
                 <<V_A1, None, V_Fraud, V_abc, None>>,
                 <<V_A2, V_CN2, V_Theft, V_inf, V_Friday>>,
                 <<V_A2, V_CN2, V_nan, V_24, V_Friday>> } ],
    [ columns |-> <<H_case_no, H_offense_category, H_WEEKDAY, H_District, H_AREA>>,
      rows |-> { <<V_CN1, V_Robbery, V_Friday, V_D1, None>>,
                 <<V_CN3, V_assault, None, V_D1, V_Downtown>>,
                 <<None, V_Robbery, V_Monday, None, V_Downtown>> } ],
    [ columns |-> <<H_objectid, H_category, H_hour, H_Lat, H_lng>>,
      rows |-> { <<V_A1, V_Homicide, V_minus1, V_39_5, V_abc>>,
                 <<V_A2, V_Theft, V_7, V_abc, V_minus76_25>> } ],
    [ columns |-> <<H_IncidentID, H_CaseNumber>>,
      rows |-> { <<V_A1, V_CN1>> } ],
    [ columns |-> <<H_category, H_HourOfDay>>,
      rows |-> { <<V_Assault, V_14>> } ] }

RowsOf(cols) ==
  IF \E s \in Sources : s.columns = cols
  THEN (CHOOSE s \in Sources : s.columns = cols).rows
  ELSE {}

\* the values of --chunksize tried
ChunkSizes == {1, 2}

\* the chunks read_csv may yield next: chunksize rows, or fewer at the end of
\* the file; only the first chunk of a file may be empty (a file of a header
\* row alone)
ChunksOf(cols, cs, first) ==
  UNION {[1..k -> RowsOf(cols)] : k \in (IF first THEN 0 ELSE 1)..cs}

Faults == {"none", "labels", "commit"}

\* ------------------------------------------------------------------------
\* The chat application: src/streamlit_app.py
\*
\* Streamlit runs the script from the top on every event of the page. What
\* lasts from one script run to the next is st.session_state and the text of
\* the widgets the last run displayed. A button is True only in the script
\* run its click started.
\* ------------------------------------------------------------------------

\* The tuple (None, None): different from None and from every str.
NoneNone == <<-1, -1>>

\* bcrypt, as far as the application uses it: a hash is "$" and the password,
\* so that two passwords share a hash only if they are equal.
checkpw(password, hashed_password) == <<36>> \o password = hashed_password

\* the hash of "pw", the password of the deployment
HASHED_PASSWORD == <<36,112,119>>

\* s[i-1 : i-1+n] of Python, for a position i counted from 1.
Slice(s, i, n) ==
  IF i > Len(s) THEN <<>>
  ELSE SubSeq(s, i, IF i + n - 1 <= Len(s) THEN i + n - 1 ELSE Len(s))

\* The length of the longest match of \s* at position i.
RECURSIVE SpaceRun(_, _)
SpaceRun(s, i) ==
  IF i <= Len(s) /\ s[i] \in Whitespace THEN 1 + SpaceRun(s, i + 1) ELSE 0

\* re.sub(r"^```sql\s*|\s*```$", "", s, flags=IGNORECASE | MULTILINE) from
\* position i on: ^ is the start of a line, $ the end of one.
RECURSIVE sub(_, _)
sub(s, i) ==
  IF i > Len(s) THEN <<>>
  ELSE IF (i = 1 \/ s[i - 1] = 10) /\ lower(Slice(s, i, 6)) = <<96,96,96,115,113,108>>
  THEN sub(s, i + 6 + SpaceRun(s, i + 6))
  ELSE IF /\ Slice(s, i + SpaceRun(s, i), 3) = <<96,96,96>>
          /\ \/ i + SpaceRun(s, i) + 3 > Len(s)
             \/ s[i + SpaceRun(s, i) + 3] = 10
  THEN sub(s, i + SpaceRun(s, i) + 3)
  ELSE <<s[i]>> \o sub(s, i + 1)

extract_sql_from_response(response_text) == strip(sub(response_text, 1))

\* The model's answer is an input: llm.raises says that the call raised,
\* llm.content is the text of the answer otherwise.
generate_sql_with_gpt(user_question, llm) ==
  IF llm.raises THEN NoneNone ELSE extract_sql_from_response(llm.content)

\* The statements the database executes; it rejects every other text.
Statements ==
  { <<83,69,76,69,67,84,32,49>>,    \* "SELECT 1"
    <<83,69,76,69,67,84,32,50>>,    \* "SELECT 2"
    <<83,69,76,69,67,84,32,51>> }   \* "SELECT 3"

\* The database's answer is an input: pg.ok says that the connection is there
\* and the statement did not fail for another reason, pg.rows is the number of
\* rows it returns. A DataFrame is <<number of rows>>.
run_query(sql, pg) ==
  IF pg.ok /\ sql \in Statements THEN <<pg.rows>> ELSE None

\* st.session_state: the keys that are set and their values (the value of a
\* key that is not set is not looked at).
NoSession ==
  [ keys |-> {}, logged_in |-> FALSE, query_history |-> <<>>,
    generated_sql |-> None, current_question |-> None ]

\* The widget of the SQL editor: the value it was created with and its text.
NoEditor == [ value |-> None, text |-> None ]

\* An event of the page: the button clicked (or "none": the page loads, or the
\* text of a widget changed) and what the outside world answers in that run.
NoEvent ==
  [ button |-> "none", password |-> <<>>, checkpw_raises |-> FALSE,
    llm |-> [raises |-> FALSE, content |-> <<>>],
    pg |-> [ok |-> FALSE, rows |-> 0], idx |-> 0 ]

\* logged_in is set and true
LoggedIn(session_state) ==
  "logged_in" \in session_state.keys /\ session_state.logged_in

require_login_never(session_state) == FALSE

\* TRUE when the script shows the login screen and stops.
require_login(session_state) ==
  \/ "logged_in" \notin session_state.keys
  \/ ~session_state.logged_in

\* login_screen: the session state it leaves and whether it calls st.rerun().
login_screen(session_state, ev) ==
  IF /\ ev.button = "login"
     /\ Truthy(ev.password)
     /\ ~ev.checkpw_raises
     /\ checkpw(ev.password, HASHED_PASSWORD)
  THEN [ session_state |-> [session_state EXCEPT !.keys = @ \cup {"logged_in"},
                                                  !.logged_in = TRUE],
         rerun |-> TRUE ]
  ELSE [ session_state |-> session_state, rerun |-> FALSE ]

\* What a script run is at a point of main(): the session state, the local
\* variable user_question, the editor, what is on the page, the outside calls
\* made.
\* The sidebar down to the Logout button.
Sidebar(session_state) ==
  {"sidebar", "logout_button"} \cup
  (IF /\ "query_history" \in session_state.keys
      /\ Len(session_state.query_history) > 0
   THEN {"stats"} ELSE {})

InitState(a) ==
  [ session_state |->
      [a.session_state EXCEPT
         !.keys = @ \cup {"query_history", "generated_sql", "current_question"}],
    user_question |-> a.user_question,
    editor |-> a.editor,
    shown |-> Sidebar(a.session_state)
                \cup {"question", "generate_button", "clear_button"},
    calls |-> {} ]

ClearHistory(f, ev) ==
  IF ev.button = "clear"
  THEN [f EXCEPT !.session_state.query_history = <<>>,
                 !.session_state.generated_sql = None,
                 !.session_state.current_question = None]
  ELSE f

\* lines 280-290: user_question is stripped, a question other than the current
\* one clears the SQL of the session, and a truthy answer is stored
Generate(f, ev) ==
  IF ev.button = "generate" /\ Truthy(f.user_question)
  THEN [f EXCEPT
          !.user_question = strip(@),
          !.session_state =
             IF Truthy(generate_sql_with_gpt(strip(f.user_question), ev.llm))
             THEN [@ EXCEPT
                     !.generated_sql =
                        generate_sql_with_gpt(strip(f.user_question), ev.llm),
                     !.current_question = strip(f.user_question)]
             ELSE IF @.current_question # strip(f.user_question)
             THEN [@ EXCEPT !.generated_sql = None, !.current_question = None]
             ELSE @,
          !.calls = @ \cup {"generate_sql_with_gpt"}]
  ELSE f

\* st.text_area casts the value it is given to str.
text_area_value(value) ==
  IF value = NoneNone THEN <<40,78,111,110,101,44,32,78,111,110,101,41>>  \* "(None, None)"
  ELSE str(value)

\* The text of the editor: a widget keeps its text from the last run as long
\* as it is created with the same value.
edited_sql(f) ==
  IF f.editor.value = text_area_value(f.session_state.generated_sql)
  THEN f.editor.text
  ELSE text_area_value(f.session_state.generated_sql)

RunQuery(f, ev) ==
  IF ev.button = "run"
  THEN IF run_query(edited_sql(f), ev.pg) # None
       THEN [f EXCEPT
               !.session_state.query_history =
                  Append(@, [ question |-> f.user_question,
                              sql |-> edited_sql(f),
                              rows |-> run_query(edited_sql(f), ev.pg)[1] ]),
               !.shown = @ \cup {"results"},
               !.calls = @ \cup {"run_query"}]
       ELSE [f EXCEPT !.calls = @ \cup {"run_query"}]
  ELSE f

Editor(f, ev) ==
  IF Truthy(f.session_state.generated_sql)
  THEN [RunQuery([f EXCEPT !.shown = @ \cup {"editor", "run_button"}], ev)
          EXCEPT !.editor = [ value |-> text_area_value(f.session_state.generated_sql),
                              text |-> edited_sql(f) ]]
  ELSE [f EXCEPT !.editor = NoEditor]

\* reversed(query_history[-5:])
reversed_last5(query_history) ==
  [ i \in 1..(IF Len(query_history) > 5 THEN 5 ELSE Len(query_history)) |->
      query_history[Len(query_history) + 1 - i] ]

History(f, ev) ==
  IF Len(f.session_state.query_history) > 0
  THEN IF /\ ev.button = "rerun"
          /\ ev.idx < Len(reversed_last5(f.session_state.query_history))
       THEN [f EXCEPT
               !.shown = @ \cup {"history"} \cup
                  (IF run_query(reversed_last5(f.session_state.query_history)[ev.idx + 1].sql,
                                ev.pg) # None
                   THEN {"rerun_results"} ELSE {}),
               !.calls = @ \cup {"run_query"}]
       ELSE [f EXCEPT !.shown = @ \cup {"history"}]
  ELSE f

\* One run of the script on the state a the last run left: what it leaves,
\* with the value of logged_in it saw, and whether it ended in st.rerun().
\* A widget that a run does not display loses its text.
main(a, ev) ==
  IF require_login(a.session_state)
  THEN [ session_state |-> login_screen(a.session_state, ev).session_state,
         user_question |-> <<>>,
         editor |-> NoEditor,
         logged_in |-> LoggedIn(a.session_state),
         shown |-> {"login"},
         calls |-> {},
         rerun |-> login_screen(a.session_state, ev).rerun ]
  ELSE IF ev.button = "logout"
  THEN [ session_state |-> [a.session_state EXCEPT !.logged_in = FALSE],
         user_question |-> a.user_question,
         editor |-> a.editor,
         logged_in |-> LoggedIn(a.session_state),
         shown |-> Sidebar(a.session_state),
         calls |-> {},
         rerun |-> TRUE ]
  ELSE \* the local user_question ends with the run, the text of the box stays
       [ History(Editor(Generate(ClearHistory(InitState(a), ev), ev), ev), ev)
           EXCEPT !.user_question = a.user_question ]
         @@ [ logged_in |-> LoggedIn(a.session_state), rerun |-> FALSE ]

\* The application after script run r1 and, if r1 ended in st.rerun(), the
\* script run r2 that followed it. Of a script run the model keeps the value
\* of logged_in it found, what it displayed and what it called; of the event,
\* the button, the password typed and whether the call of the model raised.
After(r1, r2, ev) ==
  [ session_state |-> r2.session_state,
    user_question |-> r2.user_question,
    editor |-> r2.editor,
    runs |-> IF r1.rerun
             THEN << [ logged_in |-> r1.logged_in, shown |-> r1.shown, calls |-> r1.calls ],
                     [ logged_in |-> r2.logged_in, shown |-> r2.shown, calls |-> r2.calls ] >>
             ELSE << [ logged_in |-> r1.logged_in, shown |-> r1.shown, calls |-> r1.calls ] >>,
    event |-> [ button |-> ev.button, password |-> ev.password,
                llm_raises |-> ev.llm.raises ] ]

\* The browser opens the page: a first script run on an empty session.
AppStart ==
  After(main([ session_state |-> NoSession, user_question |-> <<>>, editor |-> NoEditor ],
             NoEvent),
        main([ session_state |-> NoSession, user_question |-> <<>>, editor |-> NoEditor ],
             NoEvent),
        NoEvent)

\* ------------------------------------------------------------------------
\* The model-serving wrapper: src/project2/api/main.py
\*
\* predict is a plain def, which FastAPI runs in a pool of threads: requests
\* are handled concurrently, and the threads share the global _model. A
\* thread can be interrupted between any two of the steps of get_model.
\* None is 0 here and the object that the k-th joblib.load returned is k.
\* ------------------------------------------------------------------------

\* the threads of the pool that handle requests
MaxThreads == 2

\* The process after import: no model cached, no thread handling a request.
\* exists is whether MODEL_PATH exists, loads counts the calls of joblib.load
\* that returned; of a thread: where it is, the object it loaded and has not
\* stored yet, and how its last request ended (the model it used, the error).
ApiStart ==
  [ cached |-> 0, exists |-> FALSE, loads |-> 0,
    threads |-> [ t \in 1..MaxThreads |->
                    [ pc |-> "idle", loaded |-> 0, model |-> 0, err |-> "none" ] ] ]

----------------------------------------------------------------------------
(* The runs of create_db.py and load_db.py *)

NoneResolved == [k \in Fields |-> None]
NothingIngested == [x \in {} |-> None]

Init ==
  /\ schema = FALSE
  /\ db = DDL
  /\ pc = "idle"
  /\ err = "none"
  /\ columns = <<>>
  /\ chunksize = 1
  /\ chunk = <<>>
  /\ nread = 0
  /\ more = FALSE
  /\ resolved = NoneResolved
  /\ incident_rows = <<>>
  /\ label_rows = <<>>
  /\ total = 0
  /\ cleaned = <<>>
  /\ ingested = NothingIngested
  /\ replaced = {}
  /\ todo = <<>>
  /\ file = <<>>
  /\ run = 0
  /\ first_db = DDL
  /\ app = AppStart
  /\ api = ApiStart

\* create_db.main: CREATE TABLE IF NOT EXISTS leaves existing tables alone
CreateDb ==
  /\ pc # "running"
  /\ schema' = TRUE
  /\ db' = IF schema THEN db ELSE DDL
  /\ UNCHANGED << pc, err, columns, chunksize, chunk, nread, more, resolved,
                  incident_rows, label_rows, total, cleaned, ingested,
                  replaced, todo, file, run, first_db, app, api >>

\* history: the cleaned rows a committed chunk emitted, the last one per id
RECURSIVE Record(_, _)
Record(ing, rows) ==
  IF rows = <<>> THEN ing
  ELSE LET r == Head(rows)
       IN Record([x \in DOMAIN ing \cup {incident_id(r)} |->
                    IF x = incident_id(r) THEN r ELSE ing[x]], Tail(rows))

\* load_db.main up to the loop (lines 64-98) on a file with the header `cols`
Start(cols, cs, csv_exists) ==
  /\ pc # "running"
  /\ chunk' = <<>>
  /\ nread' = 0
  /\ resolved' = NoneResolved
  /\ incident_rows' = <<>>
  /\ label_rows' = <<>>
  /\ cleaned' = <<>>
  /\ replaced' = {}
  /\ IF ~csv_exists \/ ~schema
     THEN /\ pc' = "failed"
          /\ err' = "FileNotFoundError"
          /\ more' = FALSE
          /\ UNCHANGED << columns, chunksize >>
     ELSE /\ pc' = "running"
          /\ err' = "none"
          /\ more' = TRUE
          /\ columns' = cols
          /\ chunksize' = cs
  /\ UNCHANGED << schema, db, total, ingested >>

\* one pass of the loop (lines 101-228) on the chunk `rows`, and the
\* finally clause (lines 240-241) when it raises
DoChunk(rows, fault) ==
  \E out \in {loop_body(db, columns, rows, fault)} :
     /\ chunk' = rows
     /\ nread' = nread + 1
     /\ total' = total + 1
     /\ more' = (Len(rows) = chunksize)
     /\ resolved' = out.resolved
     /\ cleaned' = out.cleaned
     /\ incident_rows' = out.incident_rows
     /\ label_rows' = out.label_rows
     /\ err' = out.err
     /\ IF out.err = "none"
        THEN /\ db' = commit(out.con, db)
             /\ pc' = "running"
             /\ ingested' = Record(ingested, out.emitted)
             /\ replaced' = {r \in db.incidents : \E t \in Range(out.incident_rows) :
                                                    t.incident_id = r.incident_id}
        ELSE /\ db' = close(out.con, db)
             /\ pc' = "failed"
             /\ ingested' = ingested
             /\ replaced' = {}
     /\ UNCHANGED << schema, columns, chunksize >>

\* the file is exhausted: the summary of lines 230-238, then the finally clause
End ==
  /\ pc = "running"
  /\ nread >= 1
  /\ pc' = "done"
  /\ UNCHANGED << schema, db, err, columns, chunksize, chunk, nread, more,
                  resolved, incident_rows, label_rows, total, cleaned,
                  ingested, replaced >>

(* Spec: any runs over any files, the chunks chosen as they are read *)

StartRun(src, cs, csv_exists) ==
  /\ total < MaxChunks
  /\ Start(src.columns, cs, csv_exists)
  /\ UNCHANGED << todo, file, run, first_db, app, api >>

ReadChunk(rows, fault) ==
  /\ pc = "running"
  /\ more
  /\ total < MaxChunks
  /\ DoChunk(rows, fault)
  /\ UNCHANGED << todo, file, run, first_db, app, api >>

Finish ==
  /\ End
  /\ UNCHANGED << todo, file, run, first_db, app, api >>

Next ==
  \/ CreateDb
  \/ \E src \in Sources, cs \in ChunkSizes, csv_exists \in BOOLEAN :
       StartRun(src, cs, csv_exists)
  \/ \E rows \in ChunksOf(columns, chunksize, nread = 0), fault \in Faults :
       ReadChunk(rows, fault)
  \/ Finish

Spec == Init /\ [][Next]_vars

(* SpecRerun: the normalizer run twice on one input file *)

\* pd.read_csv(csv_path, chunksize=cs) on a file of the rows `rows`: chunks
\* of cs rows, the last one of what is left; a file of no rows gives one
\* chunk of no rows
RECURSIVE read_csv(_, _)
read_csv(rows, cs) ==
  IF Len(rows) <= cs THEN << rows >>
  ELSE << SubSeq(rows, 1, cs) >> \o read_csv(SubSeq(rows, cs + 1, Len(rows)), cs)

\* the input files of at most n rows, with the batch size of the runs
Files(n) ==
  UNION { { [columns |-> s.columns, chunksize |-> cs, chunks |-> read_csv(rows, cs)] :
              rows \in UNION { [1..m -> RowsOf(s.columns)] : m \in 0..n } } :
          s \in Sources, cs \in ChunkSizes }

InitRerun ==
  /\ schema = TRUE
  /\ db = DDL
  /\ pc = "idle"
  /\ err = "none"
  /\ columns = <<>>
  /\ chunksize = 1
  /\ chunk = <<>>
  /\ nread = 0
  /\ more = FALSE
  /\ resolved = NoneResolved
  /\ incident_rows = <<>>
  /\ label_rows = <<>>
  /\ total = 0
  /\ cleaned = <<>>
  /\ ingested = NothingIngested
  /\ replaced = {}
  /\ todo = <<>>
  /\ file \in Files(MaxFileRows)
  /\ run = 0
  /\ first_db = DDL
  /\ app = AppStart
  /\ api = ApiStart

StartFile ==
  /\ run < 2
  /\ Start(file.columns, file.chunksize, TRUE)
  /\ todo' = file.chunks
  /\ run' = run + 1
  /\ first_db' = db
  /\ UNCHANGED << file, app, api >>

ReadFile ==
  /\ pc = "running"
  /\ todo # <<>>
  /\ DoChunk(Head(todo), "none")
  /\ todo' = Tail(todo)
  /\ UNCHANGED << file, run, first_db, app, api >>

FinishFile ==
  /\ todo = <<>>
  /\ End
  /\ UNCHANGED << todo, file, run, first_db, app, api >>

NextRerun == StartFile \/ ReadFile \/ FinishFile

SpecRerun == InitRerun /\ [][NextRerun]_vars

(* SpecCols: lines 104-105 on any header row *)

HeaderNames ==
  { H_IncidentID, H_incident_id, H_objectid, H_INCIDENT_ID, H_Incident_Id,
    H_BOM_IncidentID, H_Incident__ID, H_identifier, H_id, H_CaseNumber,
    H_category, H_Lat, H_Latitude, H_LATITUDE, H_Longitude, H_lng }

\* read_csv gives the columns of a file distinct names
HeaderRows(n) ==
  UNION { { h \in [1..m -> HeaderNames] :
              \A i, j \in 1..m : i # j => h[i] # h[j] } : m \in 1..n }

InitCols ==
  /\ schema = TRUE
  /\ db = DDL
  /\ pc = "running"
  /\ err = "none"
  /\ columns \in HeaderRows(MaxCols)
  /\ chunksize = 1
  /\ chunk = <<>>
  /\ nread = 0
  /\ more = TRUE
  /\ resolved = NoneResolved
  /\ incident_rows = <<>>
  /\ label_rows = <<>>
  /\ total = 0
  /\ cleaned = <<>>
  /\ ingested = NothingIngested
  /\ replaced = {}
  /\ todo = <<>>
  /\ file = <<>>
  /\ run = 0
  /\ first_db = DDL
  /\ app = AppStart
  /\ api = ApiStart

ResolveColumns ==
  /\ pc = "running"
  /\ nread = 0
  /\ resolved' = Resolve(columns)
  /\ nread' = 1
  /\ UNCHANGED << schema, db, pc, err, columns, chunksize, chunk, more,
                  incident_rows, label_rows, total, cleaned, ingested,
                  replaced, todo, file, run, first_db, app, api >>

NextCols == ResolveColumns

SpecCols == InitCols /\ [][NextCols]_vars

(* SpecVal: lines 130-132, 150 on any cell of a string column *)

\* space, U+FEFF and the letters of "nan", "None"
CellChars == {32, 65279, 110, 97, 78, 111, 101}

\* the cells of at most n characters, and the empty cell (NaN)
Cells(n) == UNION { [1..m -> CellChars] : m \in 0..n } \cup {None}

InitVal ==
  /\ schema = TRUE
  /\ db = DDL
  /\ pc = "running"
  /\ err = "none"
  /\ columns = << H_category >>
  /\ chunksize = 1
  /\ chunk \in { << << c >> >> : c \in Cells(MaxLen) }
  /\ nread = 0
  /\ more = TRUE
  /\ resolved = NoneResolved
  /\ incident_rows = <<>>
  /\ label_rows = <<>>
  /\ total = 0
  /\ cleaned = <<>>
  /\ ingested = NothingIngested
  /\ replaced = {}
  /\ todo = <<>>
  /\ file = <<>>
  /\ run = 0
  /\ first_db = DDL
  /\ app = AppStart
  /\ api = ApiStart

\* chunk[col].map(norm_val) on the one cell of the chunk
MapNormVal ==
  /\ pc = "running"
  /\ nread = 0
  /\ cleaned' = << norm_val(chunk[1][1]) >>
  /\ nread' = 1
  /\ UNCHANGED << schema, db, pc, err, columns, chunksize, chunk, more, resolved,
                  incident_rows, label_rows, total, ingested, replaced, todo,
                  file, run, first_db, app, api >>

NextVal == MapNormVal

SpecVal == InitVal /\ [][NextVal]_vars

----------------------------------------------------------------------------
(* SpecChat: a session of streamlit_app.py, one action per event of the page *)

\* the entries the history of a session holds in the model
MaxHistory == 1

loader_vars == << schema, db, pc, err, columns, chunksize, chunk, nread, more,
                  resolved, incident_rows, label_rows, total, cleaned, ingested,
                  replaced, todo, file, run, first_db >>

\* what the last script run left on the page
Page == app.runs[Len(app.runs)].shown

\* An event and the script runs it starts: st.rerun() starts the script again
\* at once, with no button clicked.
Handle(a, ev) ==
  \E r1 \in { main(a, ev) } :
    \E r2 \in { IF r1.rerun THEN main(r1, NoEvent) ELSE r1 } :
      app' = After(r1, r2, ev)

\* the Login button, with the password typed: none, "no" or "pw"
Login ==
  /\ "login" \in Page
  /\ \E password \in { <<>>, <<110,111>>, <<112,119>> }, raises \in BOOLEAN :
       Handle(app, [NoEvent EXCEPT !.button = "login",
                                   !.password = password,
                                   !.checkpw_raises = raises])
  /\ UNCHANGED << loader_vars, api >>

\* the Logout button of the sidebar
Logout ==
  /\ "logout_button" \in Page
  /\ Handle(app, [NoEvent EXCEPT !.button = "logout"])
  /\ UNCHANGED << loader_vars, api >>

\* the user changes the text of the question box: to nothing, " count " or
\* "last"
TypeQuestion ==
  /\ "question" \in Page
  /\ \E text \in { <<>>, <<32,99,111,117,110,116,32>>, <<108,97,115,116>> }
                   \ {app.user_question} :
       Handle([app EXCEPT !.user_question = text], NoEvent)
  /\ UNCHANGED << loader_vars, api >>

\* the Generate SQL button; the call of the model raises, or answers
\* "SELECT 1", "```sql\nSELECT 2\n```" or "```SQL\n```"
GenerateSQL ==
  /\ "generate_button" \in Page
  /\ \E llm \in { [raises |-> TRUE, content |-> <<>>] } \cup
                { [raises |-> FALSE, content |-> c] :
                    c \in { <<83,69,76,69,67,84,32,49>>,
                            <<96,96,96,115,113,108,10,83,69,76,69,67,84,32,50,10,96,96,96>>,
                            <<96,96,96,83,81,76,10,96,96,96>> } } :
       Handle(app, [NoEvent EXCEPT !.button = "generate", !.llm = llm])
  /\ UNCHANGED << loader_vars, api >>

\* the Clear History button
ClearHistoryClick ==
  /\ "clear_button" \in Page
  /\ Handle(app, [NoEvent EXCEPT !.button = "clear"])
  /\ UNCHANGED << loader_vars, api >>

\* the user changes the text of the SQL editor to "SELECT 3"
EditSQL ==
  /\ "editor" \in Page
  /\ app.editor.text # <<83,69,76,69,67,84,32,51>>
  /\ Handle([app EXCEPT !.editor.text = <<83,69,76,69,67,84,32,51>>], NoEvent)
  /\ UNCHANGED << loader_vars, api >>

\* the Run Query button; the database fails, or returns no row or two
RunQueryClick ==
  /\ "run_button" \in Page
  /\ Len(app.session_state.query_history) < MaxHistory
  /\ \E pg \in { [ok |-> FALSE, rows |-> 0], [ok |-> TRUE, rows |-> 0],
                 [ok |-> TRUE, rows |-> 2] } :
       Handle(app, [NoEvent EXCEPT !.button = "run", !.pg = pg])
  /\ UNCHANGED << loader_vars, api >>

\* a "Re-run this query" button of the history
ReRunClick ==
  /\ "history" \in Page
  /\ \E idx \in 0..(Len(reversed_last5(app.session_state.query_history)) - 1),
        pg \in { [ok |-> FALSE, rows |-> 0], [ok |-> TRUE, rows |-> 0],
                 [ok |-> TRUE, rows |-> 2] } :
       Handle(app, [NoEvent EXCEPT !.button = "rerun", !.idx = idx, !.pg = pg])
  /\ UNCHANGED << loader_vars, api >>

NextChat ==
  \/ Login
  \/ Logout
  \/ TypeQuestion
  \/ GenerateSQL
  \/ ClearHistoryClick
  \/ EditSQL
  \/ RunQueryClick
  \/ ReRunClick

SpecChat == Init /\ [][NextChat]_vars

----------------------------------------------------------------------------
(* SpecApi: the threads of main.py handling /predict requests; one action   *)
(* per step of get_model that reads or writes what the threads share        *)

\* the model file is written (training ends) or removed
ModelFile ==
  /\ api' = [api EXCEPT !.exists = ~@]
  /\ UNCHANGED << loader_vars, app >>

\* predict calls get_model, line 48: if _model is None
IsNone ==
  /\ \E t \in 1..MaxThreads :
       /\ api.threads[t].pc = "idle"
       /\ api' = [api EXCEPT
                    !.threads[t] = [ pc |-> IF api.cached = 0 THEN "exists" ELSE "return",
                                     loaded |-> 0, model |-> 0, err |-> "none" ]]
  /\ UNCHANGED << loader_vars, app >>

\* lines 49-50: if not MODEL_PATH.exists(): raise FileNotFoundError
Exists ==
  /\ \E t \in 1..MaxThreads :
       /\ api.threads[t].pc = "exists"
       /\ api' = IF api.exists
                 THEN [api EXCEPT !.threads[t].pc = "load"]
                 ELSE [api EXCEPT !.threads[t].pc = "idle",
                                  !.threads[t].err = "FileNotFoundError"]
  /\ UNCHANGED << loader_vars, app >>

\* line 51, right-hand side: joblib.load(MODEL_PATH) opens the file, which
\* may be gone by now
Load ==
  /\ \E t \in 1..MaxThreads :
       /\ api.threads[t].pc = "load"
       /\ api' = IF api.exists
                 THEN [api EXCEPT !.loads = @ + 1,
                                  !.threads[t].loaded = api.loads + 1,
                                  !.threads[t].pc = "store"]
                 ELSE [api EXCEPT !.threads[t].pc = "idle",
                                  !.threads[t].err = "FileNotFoundError"]
  /\ UNCHANGED << loader_vars, app >>

\* line 51, assignment: _model = the object loaded
Store ==
  /\ \E t \in 1..MaxThreads :
       /\ api.threads[t].pc = "store"
       /\ api' = [api EXCEPT !.cached = api.threads[t].loaded,
                             !.threads[t].loaded = 0,
                             !.threads[t].pc = "return"]
  /\ UNCHANGED << loader_vars, app >>

\* line 52: return _model reads the global again; lines 61-74 answer the
\* request with that model and touch nothing the threads share
Return ==
  /\ \E t \in 1..MaxThreads :
       /\ api.threads[t].pc = "return"
       /\ api' = [api EXCEPT !.threads[t].model = api.cached,
                             !.threads[t].pc = "idle"]
  /\ UNCHANGED << loader_vars, app >>

NextApi ==
  \/ ModelFile
  \/ IsNone
  \/ Exists
  \/ Load
  \/ Store
  \/ Return

SpecApi == Init /\ [][NextApi]_vars

----------------------------------------------------------------------------
(* The properties of the store and of the loader *)

Ids(rows) == {r.incident_id : r \in rows}

\* C1: starting from the empty schema, after any sequence of committed
\* batches the incidents table and the labels table hold the same set of
\* identifiers and every incident has exactly one label row, also when an
\* identifier is re-ingested in a later batch or occurs twice in one batch.
OneLabelPerIncident ==
  /\ Ids(db.incidents) = Ids(db.labels)
  /\ \A r \in db.incidents :
       Cardinality({l \in db.labels : l.incident_id = r.incident_id}) = 1

\* a batch was committed that holds an identifier twice, the identifier being
\* in the store from an earlier batch
ReingestedTwiceInOneBatch ==
  /\ err = "none"
  /\ \E i, j \in 1..Len(incident_rows) :
       /\ i < j
       /\ incident_rows[i].incident_id = incident_rows[j].incident_id
       /\ incident_rows[i].incident_id \in Ids(replaced)
  /\ OneLabelPerIncident

SevenNames ==
  { <<65,115,115,97,117,108,116>>,
    <<82,111,98,98,101,114,121>>,
    <<83,101,120,117,97,108,32,65,115,115,97,117,108,116>>,
    <<72,111,109,105,99,105,100,101>>,
    <<79,116,104,101,114,32,83,101,120,117,97,108,32,79,102,102,101,110,115,101>>,
    <<83,101,120,117,97,108,32,79,102,102,101,110,115,101>>,
    <<83,79,68,79,77,89>> }

\* C2: the label of every stored incident is 1 if and only if the
\* normalized category of the row that produced it is, case-sensitively, one
\* of Assault, Robbery, Sexual Assault, Homicide, Other Sexual Offense,
\* Sexual Offense, SODOMY; it is 0 for every other non-null category.
LabelIffSevenNames ==
  \A r \in db.incidents :
    /\ r.incident_id \in DOMAIN ingested
    /\ ingested[r.incident_id].parent_type # None
    /\ \A l \in db.labels :
         l.incident_id = r.incident_id =>
           /\ l.violent \in {0, 1}
           /\ l.violent = 1 <=> ingested[r.incident_id].parent_type \in SevenNames

\* the store holds a label 1 made from " Robbery " and a label 0 made from
\* "assault", a name that differs from one of the seven by its case only
LabelledBothWays ==
  \E l1, l0 \in db.labels :
    /\ l1.violent = 1
    /\ l0.violent = 0
    /\ l1.incident_id \in DOMAIN ingested
    /\ l0.incident_id \in DOMAIN ingested
    /\ ingested[l1.incident_id].parent_type = strip(V_Robbery)
    /\ ingested[l0.incident_id].parent_type = V_assault
    /\ \E i \in 1..Len(chunk) : V_Robbery \in Range(chunk[i])

\* C3: in every reachable state of the store, every row of the incidents
\* table has a non-null identifier and a non-null parent_type_id.
KeysNotNull ==
  \A r \in db.incidents : r.incident_id # None /\ r.parent_type_id # None

\* a committed batch of two rows of which one had no identifier and a
\* category, and the other was stored
StoredBesideNullId ==
  /\ err = "none"
  /\ Len(chunk) = 2
  /\ Len(incident_rows) = 1
  /\ \E i \in 1..2 :
       /\ KeyCols(resolved, columns, chunk[i]).incident_id = None
       /\ KeyCols(resolved, columns, chunk[i]).parent_type # None
  /\ \E r \in db.incidents : r.incident_id = incident_rows[1].incident_id

NoDuplicates(store) ==
  /\ \A a, b \in store.incidents : a.incident_id = b.incident_id => a = b
  /\ \A a, b \in store.labels : a.incident_id = b.incident_id => a = b
  /\ \A t \in DimTables :
       \A a, b \in store[t] : (a.name = b.name \/ a.id = b.id) => a = b

\* C4: when the normalizer has run twice on the same input file with the
\* same batch size, the incidents, the labels and the four dimension tables
\* are exactly as the first run left them: no duplicate row, no changed row,
\* no new or renumbered dimension entry.
SecondRunChangesNothing ==
  (run = 2 /\ pc \in {"done", "failed"}) => (db = first_db /\ NoDuplicates(db))

\* the second run over a file of two batches has ended, having replaced
\* stored rows, with two categories in the store
RanTwice ==
  /\ run = 2
  /\ pc = "done"
  /\ Len(file.chunks) >= 2
  /\ replaced # {}
  /\ Cardinality(db.parent_types) >= 2
  /\ db = first_db

PrimaryIdOf(row) == norm_val(Cell(resolved, columns, row, "incident_id"))
CaseNumberOf(row) == norm_val(Cell(resolved, columns, row, "case_number"))
CategoryOf(row) == norm_val(Cell(resolved, columns, row, "parent_type"))

\* the last batch was committed, none of its rows has a primary identifier
\* and all of them have a case number
FallbackBatch ==
  /\ nread >= 1
  /\ err = "none"
  /\ chunk # <<>>
  /\ \A i \in 1..Len(chunk) : PrimaryIdOf(chunk[i]) = None
  /\ \A i \in 1..Len(chunk) : CaseNumberOf(chunk[i]) # None

HasCategory(row) == CategoryOf(row) # None

\* C5: of a batch in which no row has a primary identifier (the header may
\* have no identifier column at all) and the case-number column is populated,
\* every fact row stored has its identifier equal to its row's case number.
FallbackToCaseNumber ==
  FallbackBatch =>
    LET rows == SelectSeq(chunk, HasCategory)
    IN /\ Len(incident_rows) = Len(rows)
       /\ \A i \in 1..Len(rows) :
            /\ incident_rows[i].incident_id = CaseNumberOf(rows[i])
            /\ \E r \in db.incidents :
                 /\ r.incident_id = CaseNumberOf(rows[i])
                 /\ r.case_number = CaseNumberOf(rows[i])

\* such a batch of two rows under a header that has an identifier column
FellBack ==
  /\ FallbackBatch
  /\ resolved.incident_id # None
  /\ Len(chunk) = 2
  /\ Len(incident_rows) = 2
  /\ db.incidents # {}

NameOf(table, idv) ==
  IF idv = None THEN None
  ELSE IF \E d \in db[table] : IntVal(d.id) = idv
       THEN (CHOOSE d \in db[table] : IntVal(d.id) = idv).name
       ELSE <<>>

NullIfNaN(x) == IF x = NaN THEN None ELSE x

\* the stored row `r` and the label value `v` against the ingested row `g`
SameFields(r, v, g) ==
  /\ r.case_number = g.case_number
  /\ r.incident_datetime = g.incident_datetime
  /\ r.hour_of_day = NullIfNaN(g.hour_of_day)
  /\ r.latitude = NullIfNaN(g.latitude)
  /\ r.longitude = NullIfNaN(g.longitude)
  /\ r.zip_code = g.zip_code
  /\ r.council_district = g.council_district
  /\ NameOf("parent_types", r.parent_type_id) = g.parent_type
  /\ NameOf("day_of_week_dim", r.day_of_week_id) = g.day_of_week
  /\ NameOf("police_district_dim", r.police_district_id) = g.police_district
  /\ NameOf("neighborhood_dim", r.neighborhood_id) = g.neighborhood
  /\ v = g.violent

\* C6: after any sequence of ingested rows, for each identifier the stored
\* incident row and its label equal, field for field, the last surviving
\* ingested row with that identifier, across batches and within one batch: a
\* field that is null in the last row is stored as null whatever it was
\* before, and there is one row for the identifier.
LastWriteWins ==
  /\ Ids(db.incidents) = DOMAIN ingested
  /\ \A x \in DOMAIN ingested :
       /\ Cardinality({r \in db.incidents : r.incident_id = x}) = 1
       /\ Cardinality({l \in db.labels : l.incident_id = x}) = 1
       /\ \A r \in db.incidents : \A l \in db.labels :
            (r.incident_id = x /\ l.incident_id = x) =>
              SameFields(r, l.violent, ingested[x])

\* a commit replaced a stored row that had a case number and a day by a row
\* that has neither
OverwrittenWithNulls ==
  \E old \in replaced : \E r \in db.incidents :
    /\ r.incident_id = old.incident_id
    /\ old.case_number # None
    /\ old.day_of_week_id # None
    /\ r.case_number = None
    /\ r.day_of_week_id = None
    /\ r.parent_type_id # old.parent_type_id

\* the header of the file being read resolves no category column, or neither
\* an identifier column nor a case-number column
Unresolvable ==
  LET r == Resolve(columns)
  IN r.parent_type = None \/ (r.incident_id = None /\ r.case_number = None)

FailsOnFirstBatch(e) ==
  (nread >= 1 /\ Unresolvable) =>
    /\ pc = "failed"
    /\ err = e
    /\ nread = 1
    /\ cleaned = <<>>
    /\ incident_rows = <<>>
    /\ label_rows = <<>>

\* C7 as stated: if the category column, or both the identifier column and
\* the case-number column, cannot be resolved for a batch, the run fails with
\* a SchemaError, no row of the batch is processed and no later batch is.
UnresolvedIsSchemaError == FailsOnFirstBatch("SchemaError")

\* C7: if the category column, or both the identifier column and the
\* case-number column, cannot be resolved for a batch, the run fails with a
\* ValueError, no row of the batch is processed and no later batch is.
UnresolvedIsValueError == FailsOnFirstBatch("ValueError")

\* a run failed on a batch with rows whose header has a category column and
\* neither an identifier nor a case-number column, after an earlier run
\* stored rows
FailedUnresolved ==
  /\ nread = 1
  /\ pc = "failed"
  /\ Unresolvable
  /\ resolved.parent_type # None
  /\ chunk # <<>>
  /\ db.incidents # {}

DimNames(rows, col) == {rows[i][col] : i \in 1..Len(rows)} \ {None}

\* the store shows all that the batch built: its names, its rows, its labels
CompleteEffects ==
  /\ DimNames(cleaned, "parent_type") \subseteq {d.name : d \in db.parent_types}
  /\ DimNames(cleaned, "day_of_week") \subseteq {d.name : d \in db.day_of_week_dim}
  /\ DimNames(cleaned, "police_district")
       \subseteq {d.name : d \in db.police_district_dim}
  /\ DimNames(cleaned, "neighborhood") \subseteq {d.name : d \in db.neighborhood_dim}
  /\ \A i \in 1..Len(incident_rows) :
       \/ incident_rows[i] \in db.incidents
       \/ \E j \in (i + 1)..Len(incident_rows) :
            incident_rows[j].incident_id = incident_rows[i].incident_id
  /\ \A i \in 1..Len(label_rows) :
       \/ label_rows[i] \in db.labels
       \/ \E j \in (i + 1)..Len(label_rows) :
            label_rows[j].incident_id = label_rows[i].incident_id

\* what the batch did not write is as it was
OthersKept ==
  /\ \A r \in db.incidents :
       r.incident_id \notin Ids(Range(incident_rows')) => r \in db'.incidents
  /\ \A l \in db.labels :
       l.incident_id \notin Ids(Range(incident_rows')) => l \in db'.labels
  /\ \A t \in DimTables : db[t] \subseteq db'[t]

\* C8: each batch is applied atomically and a failure does not undo earlier
\* batches: when the run fails in batch k the persisted store is what it was
\* after batch k-1, with none of the effects of batch k; a batch that does not
\* fail leaves all its dimension inserts, fact upserts and label upserts.
BatchesAreAtomic ==
  [][ nread' = nread + 1 =>
        IF pc' = "failed" THEN db' = db ELSE CompleteEffects' /\ OthersKept ]_vars

\* the second batch of a run failed after it had built rows with a category
\* the store does not hold, the first batch being in the store
FailedInSecondBatch ==
  /\ pc = "failed"
  /\ nread = 2
  /\ err \in {"OverflowError", "OperationalError"}
  /\ db.incidents # {}
  /\ incident_rows # <<>>
  /\ \E i \in 1..Len(cleaned) :
       cleaned[i].parent_type \notin {d.name : d \in db.parent_types}

DimNamesUnique ==
  \A t \in DimTables :
    \A a, b \in db[t] : (a.name = b.name \/ a.id = b.id) => a = b

DimRowsKept == \A t \in DimTables : db[t] \subseteq db'[t]

\* C9: in every reachable state of the store each dimension table holds at
\* most one row per name, and a name that has been inserted keeps its
\* surrogate id in every later batch and run.
DimensionsAreStable == []DimNamesUnique /\ [][DimRowsKept]_vars

\* a batch upserted " Fraud ", which an earlier batch had inserted, together
\* with Assault, which is new and sorts before it
UpsertedExistingName ==
  /\ err = "none"
  /\ db.parent_types = { [id |-> 1, name |-> strip(V_Fraud)],
                         [id |-> 2, name |-> V_Assault] }
  /\ strip(V_Fraud) \in DimNames(cleaned, "parent_type")
  /\ V_Assault \in DimNames(cleaned, "parent_type")

\* lowercased, trimmed, '-', '/' and space turned into underscore
NormalForm(h) == replace(replace(replace(lower(strip(h)), 45, 95), 47, 95), 32, 95)

AliasOf(h, k) == \E n \in 1..Len(CANDS[k]) : NormalForm(h) = NormalForm(CANDS[k][n])

\* the normal form of a header read without byte-order mark, ' for U+2019
PlainForm(h) == replace(NormalForm(remove(h, 65279)), 8217, 39)

Competes(h, k) == \E n \in 1..Len(CANDS[k]) : PlainForm(h) = NormalForm(CANDS[k][n])

\* the place of the first alias of field k that the header h matches so read
FirstAlias(h, k) ==
  CHOOSE n \in 1..Len(CANDS[k]) :
    /\ PlainForm(h) = NormalForm(CANDS[k][n])
    /\ \A m \in 1..(n - 1) : PlainForm(h) # NormalForm(CANDS[k][m])

\* C10 as stated: every header whose normal form (lowercased, trimmed, '-',
\* '/' and space turned into underscore) is the normal form of an accepted
\* alias resolves to the canonical field of the alias.
EveryAliasResolves ==
  nread = 1 =>
    \A i \in 1..Len(columns) : \A k \in Fields :
      AliasOf(columns[i], k) => resolved[k] = columns[i]

\* no header of the batch matches an alias of field k listed before the
\* first one that columns[i] matches, and no later header has the normal
\* form of columns[i]
Uncontested(i, k) ==
  /\ \A j \in 1..Len(columns) :
       Competes(columns[j], k) => FirstAlias(columns[j], k) >= FirstAlias(columns[i], k)
  /\ \A j \in (i + 1)..Len(columns) :
       PlainForm(columns[j]) # PlainForm(columns[i])

\* C10: a header whose normal form is the normal form of an accepted alias
\* has its canonical field resolved, whatever its case, surrounding
\* whitespace and separators; the field resolves to this header when no
\* other header of the batch, read without byte-order mark and with ' for
\* U+2019, matches an earlier alias of the field and no later header has the
\* same normal form so read.
UncontestedAliasResolves ==
  nread = 1 =>
    \A i \in 1..Len(columns) : \A k \in Fields :
      AliasOf(columns[i], k) =>
        /\ resolved[k] # None
        /\ Competes(resolved[k], k)
        /\ Uncontested(i, k) => resolved[k] = columns[i]

\* " INCIDENT-ID " and "LATITUDE " resolved to the identifier and to latitude
ResolvedDespiteSpelling ==
  /\ nread = 1
  /\ columns = << H_INCIDENT_ID, H_LATITUDE >>
  /\ resolved.incident_id = H_INCIDENT_ID
  /\ resolved.latitude = H_LATITUDE

\* the identifier of row i of the last chunk after normalization and the
\* batch-level fallback
EffectiveId(i) ==
  IF \A j \in 1..Len(chunk) : PrimaryIdOf(chunk[j]) = None
  THEN CaseNumberOf(chunk[i])
  ELSE PrimaryIdOf(chunk[i])

Keyed(i) == EffectiveId(i) # None /\ CategoryOf(chunk[i]) # None

\* the places in the last chunk of the rows that have both keys, in order
RECURSIVE KeyedFrom(_)
KeyedFrom(i) ==
  IF i > Len(chunk) THEN <<>>
  ELSE (IF Keyed(i) THEN <<i>> ELSE <<>>) \o KeyedFrom(i + 1)

InfiniteHour(row) ==
  LET h == Cell(resolved, columns, row, "hour_of_day")
  IN h # None /\ lower(strip(h)) \in { <<105,110,102>>, <<45,105,110,102>>,
                                       <<43,105,110,102>> }

\* C11: a source row is stored as a fact row if and only if, after value
\* normalization and the batch-level identifier fallback, its identifier and
\* its category are both non-null; a row that lacks one is dropped and the
\* batch does not fail for it, and no row is dropped for lacking an optional
\* or dimension field.
StoredIffKeyed ==
  /\ (nread >= 1 /\ err = "none") =>
       LET at == KeyedFrom(1)
       IN /\ Len(incident_rows) = Len(at)
          /\ \A n \in 1..Len(at) :
               /\ incident_rows[n].incident_id = EffectiveId(at[n])
               /\ NameOf("parent_types", incident_rows[n].parent_type_id)
                    = CategoryOf(chunk[at[n]])
  /\ err # "IntegrityError"
  /\ err = "OverflowError" =>
       \E i \in 1..Len(chunk) : Keyed(i) /\ InfiniteHour(chunk[i])

\* a committed batch of a row with an identifier and no category, which was
\* dropped, and a row with both and no case number, hour or day, which was
\* stored
DroppedOneKeptOne ==
  /\ err = "none"
  /\ Len(chunk) = 2
  /\ \E i \in 1..2 : PrimaryIdOf(chunk[i]) # None /\ CategoryOf(chunk[i]) = None
  /\ Len(incident_rows) = 1
  /\ incident_rows[1].case_number = None
  /\ incident_rows[1].hour_of_day = None
  /\ incident_rows[1].day_of_week_id = None
  /\ incident_rows[1] \in db.incidents

\* the foreign key k into `table` against the normalized value v of the row
DimKeyMatches(table, k, v) ==
  /\ v = None <=> k = None
  /\ v # None =>
       /\ Cardinality({d \in db[table] : d.name = v}) = 1
       /\ \E d \in db[table] : d.name = v /\ k = IntVal(d.id)

\* C12: for every stored fact row and each of the weekday, police-district
\* and neighborhood dimensions, the foreign key is null exactly when the
\* row's normalized value is absent, and otherwise is the id of the row of
\* the dimension table with that name, also when an earlier batch of the run
\* inserted the name.
DimensionKeysMatch ==
  \A r \in db.incidents :
    /\ r.incident_id \in DOMAIN ingested
    /\ DimKeyMatches("day_of_week_dim", r.day_of_week_id,
                     ingested[r.incident_id].day_of_week)
    /\ DimKeyMatches("police_district_dim", r.police_district_id,
                     ingested[r.incident_id].police_district)
    /\ DimKeyMatches("neighborhood_dim", r.neighborhood_id,
                     ingested[r.incident_id].neighborhood)

\* the second batch of a run, of one row, used the weekday the first batch
\* had inserted; the row has no district and no neighborhood
UsedEarlierName ==
  /\ nread = 2
  /\ total = 2
  /\ err = "none"
  /\ Len(chunk) = 1
  /\ Len(incident_rows) = 1
  /\ Cardinality(db.incidents) = 2
  /\ Cardinality(db.day_of_week_dim) = 1
  /\ \A r \in db.incidents :
       /\ r.day_of_week_id = IntVal(1)
       /\ r.police_district_id = None
       /\ r.neighborhood_id = None

RECURSIVE WithoutLeadingMark(_)
WithoutLeadingMark(s) ==
  IF s # <<>> /\ Head(s) = 65279 THEN WithoutLeadingMark(Tail(s)) ELSE s

\* a string without its surrounding whitespace and its leading byte-order
\* mark
Trimmed(s) == strip(WithoutLeadingMark(strip(s)))

\* C13: normalization of a string-typed field value strips the surrounding
\* whitespace and a leading byte-order mark, and maps the empty string, "nan"
\* and "none" in any letter case to null; every other value is kept as the
\* stripped string.
NormalizesValues ==
  nread = 1 =>
    LET x == chunk[1][1]
    IN cleaned[1] =
         IF x = None THEN None
         ELSE IF Trimmed(x) = <<>>
                 \/ lower(Trimmed(x)) \in {<<110,97,110>>, <<110,111,110,101>>}
              THEN None
              ELSE Trimmed(x)

Reverse(s) == [i \in 1..Len(s) |-> s[Len(s) + 1 - i]]

\* the header chosen for field k matches the earliest alias of k that any
\* header of the batch matches
ChoosesEarliestAlias(k) ==
  (\E j \in 1..Len(columns) : Competes(columns[j], k)) =>
    /\ resolved[k] \in Range(columns)
    /\ Competes(resolved[k], k)
    /\ \A j \in 1..Len(columns) :
         Competes(columns[j], k) =>
           FirstAlias(columns[j], k) >= FirstAlias(resolved[k], k)

\* C14 as stated: when several headers of a batch match aliases of one
\* canonical field, the header chosen is the one matching the earliest alias
\* of the field's list, whatever the order of the headers in the file.
EarliestAliasInAnyOrder ==
  nread = 1 =>
    /\ \A k \in Fields : ChoosesEarliestAlias(k)
    /\ resolved = Resolve(Reverse(columns))

\* C14: when several headers of a batch match aliases of one canonical
\* field, the header chosen matches the earliest alias matched; of the
\* headers with the same normalized form the last one in the file is chosen,
\* and the choice is independent of the order of the headers when no two
\* headers have the same normalized form.
EarliestAliasLastOfEqualForms ==
  nread = 1 =>
    /\ \A k \in Fields :
         /\ ChoosesEarliestAlias(k)
         /\ \A i, j \in 1..Len(columns) :
              (columns[i] = resolved[k] /\ PlainForm(columns[j]) = PlainForm(columns[i]))
                => j <= i
    /\ (\A i, j \in 1..Len(columns) :
          i # j => PlainForm(columns[i]) # PlainForm(columns[j]))
         => resolved = Resolve(Reverse(columns))

\* "objectid" before "Incident ID": the identifier is "Incident ID", as it
\* is with the two headers the other way round
ChoseEarlierAlias ==
  /\ nread = 1
  /\ columns = << H_objectid, H_IncidentID >>
  /\ resolved.incident_id = H_IncidentID
  /\ Resolve(Reverse(columns)).incident_id = H_IncidentID

NumberChars == 48..57 \cup {43, 45, 46, 69, 101}

\* a cell that is no number: it holds a character no number is written with
\* and is none of the words read as a float
NotANumber(x) ==
  /\ x # None
  /\ \E i \in 1..Len(x) : x[i] \notin NumberChars \cup Whitespace
  /\ lower(strip(x)) \notin { <<105,110,102>>, <<45,105,110,102>>, <<43,105,110,102>>,
                              <<105,110,102,105,110,105,116,121>>, <<110,97,110>> }

NumericFields == {"hour_of_day", "latitude", "longitude"}

RawCell(row, k) == Cell(resolved, columns, row, k)

\* C15: an unparseable value in hour, latitude or longitude never raises
\* and never drops the row: a row with identifier and category is stored
\* with that numeric field null and its other fields as they would be.
UnparseableBecomesNull ==
  /\ (nread >= 1 /\ err = "none") =>
       LET at == KeyedFrom(1)
       IN /\ Len(incident_rows) = Len(at)
          /\ \A n \in 1..Len(at) :
               LET row == chunk[at[n]]
                   t == incident_rows[n]
               IN /\ \A k \in NumericFields :
                       IF NotANumber(RawCell(row, k))
                       THEN t[k] = None
                       ELSE t[k] = NullIfNaN(to_numeric(RawCell(row, k)))
                  /\ t.incident_id = EffectiveId(at[n])
                  /\ t.case_number = CaseNumberOf(row)
                  /\ NameOf("parent_types", t.parent_type_id) = CategoryOf(row)
                  /\ NameOf("day_of_week_dim", t.day_of_week_id)
                       = norm_val(RawCell(row, "day_of_week"))
  /\ (nread >= 1 /\ err \notin {"none", "OperationalError"}) =>
       \/ Unresolvable
       \/ \E i \in 1..Len(chunk) : InfiniteHour(chunk[i])

\* a stored row read with "abc" as its longitude: the longitude is null, the
\* latitude 39.5 and the hour -1 are kept
StoredWithoutLongitude ==
  /\ err = "none"
  /\ \E n \in 1..Len(incident_rows) :
       /\ NotANumber(RawCell(chunk[KeyedFrom(1)[n]], "longitude"))
       /\ incident_rows[n].longitude = None
       /\ incident_rows[n].latitude = <<395, 10>>
       /\ incident_rows[n].hour_of_day = IntVal(-1)
       /\ incident_rows[n] \in db.incidents

\* the hour read from a cell is a number outside [0, 23]
OutsideDay(v) ==
  \/ v[2] = 0 /\ v[1] # 0
  \/ v[2] > 0 /\ (v[1] < 0 \/ v[1] > 23 * v[2])

\* C16: an hour-of-day value outside [0, 23] is stored in the fact row as
\* given: it is not clamped, not nulled, and its row is neither dropped nor
\* rejected.
HourKeptAsGiven ==
  (nread >= 1 /\ ~Unresolvable /\ err # "OperationalError") =>
    \A n \in 1..Len(KeyedFrom(1)) :
      LET v == to_numeric(RawCell(chunk[KeyedFrom(1)[n]], "hour_of_day"))
      IN OutsideDay(v) =>
           /\ err = "none"
           /\ n <= Len(incident_rows)
           /\ incident_rows[n].hour_of_day = v
           /\ incident_rows[n] \in db.incidents
                \/ \E m \in (n + 1)..Len(incident_rows) :
                     incident_rows[m].incident_id = incident_rows[n].incident_id

\* the rows of the last chunk that have a primary identifier
WithPrimaryId == {i \in 1..Len(chunk) : PrimaryIdOf(chunk[i]) # None}

\* the rows of the last chunk that are stored: those with their own
\* identifier, or, in a chunk without any, those with a case number
StoredOfBatch ==
  {i \in 1..Len(chunk) :
     /\ CategoryOf(chunk[i]) # None
     /\ IF WithPrimaryId # {} THEN i \in WithPrimaryId
        ELSE CaseNumberOf(chunk[i]) # None}

----------------------------------------------------------------------------
(* The properties of the chat application *)

LoggedOut == ~LoggedIn(app.session_state)

\* a script run that found the session logged out displayed the login screen
\* and nothing else, and called neither the model nor the database
OnlyLoginScreen(r) == r.logged_in \/ (r.shown = {"login"} /\ r.calls = {})

\* C18: login is enforced before the main app. A script run that finds
\* logged_in false or unset generates no SQL, runs no query and shows no
\* history: it displays the login screen only. While the session is logged
\* out the page is the login screen, and only the Login button with the
\* correct password changes that.
LoginEnforced ==
  /\ [](\A i \in 1..Len(app.runs) : OnlyLoginScreen(app.runs[i]))
  /\ [](LoggedOut => Page = {"login"})
  /\ [][ (LoggedOut /\ Page' # {"login"})
           => (app'.event.button = "login" /\ checkpw(app'.event.password, HASHED_PASSWORD)) ]_vars

\* the user logged out of a session that has a history and generated SQL
LoggedOutWithHistory ==
  /\ app.event.button = "logout"
  /\ Len(app.runs) = 2
  /\ Page = {"login"}
  /\ Len(app.session_state.query_history) > 0
  /\ Truthy(app.session_state.generated_sql)

\* the Generate SQL button was clicked with a question and the call of the
\* model raised
GenerationFailed ==
  /\ app.event.button = "generate"
  /\ app.event.llm_raises
  /\ "generate_sql_with_gpt" \in app.runs[1].calls

\* C19: when the call that generates the SQL raises, the attempt stores no
\* SQL. generated_sql and current_question keep their value or are cleared,
\* never set to a new value, and the page offers the SQL editor and Run Query
\* only for SQL that was there before.
FailedGenerationStoresNothing ==
  [][ GenerationFailed' =>
        /\ app'.session_state.generated_sql
             \in {app.session_state.generated_sql, None}
        /\ app'.session_state.current_question
             \in {app.session_state.current_question, None}
        /\ ({"editor", "run_button"} \cap Page' # {}
              => app'.session_state.generated_sql = app.session_state.generated_sql)
    ]_vars

\* the history of the session
query_history == app.session_state.query_history

\* C20: an entry joins the history only when Run Query was clicked and the
\* query ran successfully, and the question it records is current_question,
\* the question the SQL was generated for (spaces around it aside), whatever
\* the question box holds at that time.
HistoryRecordsCurrentQuestion ==
  [][ Len(query_history') > Len(query_history) =>
        /\ app'.event.button = "run"
        /\ "run_query" \in app'.runs[1].calls
        /\ "results" \in Page'
        /\ Len(query_history') = Len(query_history) + 1
        /\ SubSeq(query_history', 1, Len(query_history)) = query_history
        /\ strip(query_history'[Len(query_history')].question)
             = app.session_state.current_question
    ]_vars

----------------------------------------------------------------------------
(* The properties of the model-serving wrapper *)

\* the models that the requests answered so far were answered with
ModelsUsed == { api.threads[t].model : t \in 1..MaxThreads } \ {0}

\* thread t ends its request with FileNotFoundError in this step
FailsMissing(t) ==
  /\ api.threads[t].pc # "idle"
  /\ api'.threads[t].pc = "idle"
  /\ api'.threads[t].err = "FileNotFoundError"

\* C21: across every interleaving of concurrent /predict requests the model
\* file is loaded at most once in the process and all requests answered use
\* the one cached model; a request that finds the model file missing fails
\* with FileNotFoundError and leaves the cache as it is, so that a later
\* request runs the load again.
ModelLoadedOnce ==
  /\ [](api.loads <= 1)
  /\ [](ModelsUsed \subseteq {api.cached} /\ Cardinality(ModelsUsed) <= 1)
  /\ [][ \A t \in 1..MaxThreads :
           FailsMissing(t) => api'.cached = api.cached /\ api'.loads = api.loads
       ]_vars

\* the part on the missing file alone, which holds in every interleaving
MissingFileLeavesCache ==
  [][ \A t \in 1..MaxThreads :
        FailsMissing(t) => api'.cached = api.cached /\ api'.loads = api.loads
    ]_vars

====
